---- MODULE Spec2Model ----
(***************************************************************************)
(* Model of the Mergington High School activities service:                 *)
(*   src/src/database.py  schema, seed migration and the three repositories*)
(*   src/src/app.py       the signup and unregister endpoints              *)
(*                                                                         *)
(* The three tables are the state.  Every repository method opens its own  *)
(* connection and commits on its own, so one repository call is one atomic *)
(* step and a request handler is a sequence of such steps; FastAPI runs    *)
(* the synchronous endpoints on a thread pool, so the steps of different   *)
(* requests interleave (specification Spec).  SerialSpec runs every        *)
(* request to completion before the next one starts.                       *)
(***************************************************************************)
EXTENDS Bags, FiniteSets, Integers, Sequences, TLC

\* ---------------------------------------------------------------- bounds
\* number of request handlers that can be in flight at the same time
NumWorkers == 2
Procs == 1..NumWorkers

\* ---------------------------------------------------------------- inputs
Michael == "michael@mergington.edu"
Daniel == "daniel@mergington.edu"
Alice == "alice@x.edu"

\* the email query parameter of a request: a seeded participant and an
\* email the seed does not know
Emails == {Michael, Alice}

Chess == "Chess Club"
Programming == "Programming Class"
Knitting == "Knitting Club"

\* the activity_name path parameter of a request: a seeded activity and a
\* name that is never seeded
ActivityNames == {Chess, Knitting}

\* The activities dict handed to migrate_existing_data, in insertion order
\* (a Python dict keeps it and has distinct keys).  A bounded instance of
\* the dict of app.py: two activities, participant lists that share an
\* email, and capacities small enough to be reached.
activities_data ==
    << [name |-> Chess,
        description |-> "Learn strategies and compete in chess tournaments",
        schedule |-> "Fridays, 3:30 PM - 5:00 PM",
        max_participants |-> 1,
        participants |-> <<Michael>>],
       [name |-> Programming,
        description |-> "Learn programming fundamentals and build software projects",
        schedule |-> "Tuesdays and Thursdays, 3:30 PM - 4:30 PM",
        max_participants |-> 2,
        participants |-> <<Michael, Daniel>>] >>

\* Python's None for an identifier that was not found or not yet fetched
\* (row ids start at 1)
None == 0

\* ---------------------------------------------------------------- state
VARIABLES
    users,          \* table users: set of rows [id, email]
    activities,     \* table activities: set of rows
    registrations,  \* table registrations: bag of rows [user_id, activity_id]
    req,            \* per worker: the request it handles and its position
    app             \* "down" before app.py is loaded, "up" once it is loaded
                    \* and serves requests, "failed" when loading it raised

vars == <<users, activities, registrations, req, app>>

\* the database file as one value
DB == [users |-> users, activities |-> activities, registrations |-> registrations]

\* ---------------------------------------------------------------- schema
\* INTEGER PRIMARY KEY AUTOINCREMENT: one more than the largest id ever
\* used; no row of users or activities is ever deleted, so that is the
\* largest id in the table.
RECURSIVE MaxId(_)
MaxId(rows) ==
    IF rows = {} THEN 0
    ELSE LET r == CHOOSE x \in rows : TRUE
             m == MaxId(rows \ {r})
         IN IF r.id > m THEN r.id ELSE m

NextId(rows) == MaxId(rows) + 1

\* a row of registrations; the columns id and registered_at are never read
RegRow(user_id, activity_id) == [user_id |-> user_id, activity_id |-> activity_id]

UniqueUsersEmail == "UNIQUE constraint failed: users.email"
UniqueActivitiesName == "UNIQUE constraint failed: activities.name"
UniqueRegistrationsPair == "UNIQUE constraint failed: registrations.user_id, registrations.activity_id"

\* the storage error of a statement the database file cannot take
OperationalError == "sqlite3.OperationalError"

\* ------------------------------------------------------- DatabaseManager
\* INSERT OR IGNORE INTO users (email): the UNIQUE email makes it a no-op
\* when a row with the email exists
InsertOrIgnoreUser(us, email) ==
    IF \E u \in us : u.email = email
    THEN us
    ELSE us \cup {[id |-> NextId(us), email |-> email]}

\* SELECT id FROM users WHERE email = ? ... fetchone()[0]
SelectUserId(us, email) == (CHOOSE u \in us : u.email = email).id

\* INSERT OR IGNORE INTO registrations: UNIQUE(user_id, activity_id) makes
\* it a no-op when the pair is stored
InsertOrIgnoreRegistration(regs, user_id, activity_id) ==
    IF BagIn(RegRow(user_id, activity_id), regs)
    THEN regs
    ELSE regs (+) SetToBag({RegRow(user_id, activity_id)})

\* the number of INSERT statements a seeding run of data executes
RECURSIVE Statements(_)
Statements(data) ==
    IF data = << >> THEN 0
    ELSE 1 + 2 * Len(Head(data).participants) + Statements(Tail(data))

\* What the store does to a run of the migration: 0 when every statement
\* succeeds, k when its k-th INSERT raises sqlite3.OperationalError (disk
\* full, database locked, ...)
Faults == 0..Statements(activities_data)

\* One INSERT of the migration's connection.  st is the run so far: the
\* database as the connection sees it (nothing is committed yet), the error
\* raised, the number of INSERTs executed and the fault the store injects;
\* db is the database the INSERT produces when it succeeds.
Execute(st, db) ==
    IF st.n + 1 = st.fault
    THEN [st EXCEPT !.raised = OperationalError, !.n = @ + 1]
    ELSE [st EXCEPT !.db = db, !.n = @ + 1]

\* the inner loop of migrate_existing_data over activity_data["participants"]
RECURSIVE MigrateParticipants(_, _, _)
MigrateParticipants(st, activity_id, participants) ==
    IF participants = << >> \/ st.raised # "" THEN st
    ELSE LET s1 == Execute(st, [st.db EXCEPT !.users =
                                   InsertOrIgnoreUser(@, Head(participants))])
             user_id == SelectUserId(s1.db.users, Head(participants))
             s2 == Execute(s1, [s1.db EXCEPT !.registrations =
                                   InsertOrIgnoreRegistration(@, user_id, activity_id)])
         IN IF s1.raised # "" THEN s1
            ELSE MigrateParticipants(s2, activity_id, Tail(participants))

\* the outer loop of migrate_existing_data over activities_data.items();
\* the result carries the error an INSERT raised, if any
RECURSIVE MigrateActivities(_, _)
MigrateActivities(st, data) ==
    IF data = << >> \/ st.raised # "" THEN st
    ELSE LET a == Head(data)
             activity_id == NextId(st.db.activities)
             row == [id |-> activity_id, name |-> a.name,
                     description |-> a.description, schedule |-> a.schedule,
                     max_participants |-> a.max_participants]
             s1 == Execute(st, [st.db EXCEPT !.activities = @ \cup {row}])
         IN IF \E x \in st.db.activities : x.name = a.name
            THEN [st EXCEPT !.raised = UniqueActivitiesName]
            ELSE IF s1.raised # "" THEN s1
            ELSE MigrateActivities(MigrateParticipants(s1, activity_id, a.participants),
                                   Tail(data))

\* the state of a run of the migration before its first INSERT
StartRun(db, fault) == [db |-> db, raised |-> "", n |-> 0, fault |-> fault]

\* mutant: the migration without its "only if the table is empty" test
migrate_existing_data_unguarded(db, data, fault) ==
    LET r == MigrateActivities(StartRun(db, fault), data)
    IN IF r.raised = "" THEN [db |-> r.db, raised |-> ""]
       ELSE [db |-> db, raised |-> r.raised]

\* mutant: every INSERT committed on its own (a connection in autocommit
\* mode), so the rows written before an error stay
migrate_existing_data_autocommit(db, data, fault) ==
    IF Cardinality(db.activities) = 0
    THEN LET r == MigrateActivities(StartRun(db, fault), data)
         IN [db |-> r.db, raised |-> r.raised]
    ELSE [db |-> db, raised |-> ""]

\* migrate_existing_data: seeds only when activities is empty; everything is
\* written on one connection and committed once after the loops, so an
\* error leaves the call before the commit and conn.close() in the finally
\* clause rolls back what the run has written
migrate_existing_data(db, data, fault) ==
    IF Cardinality(db.activities) = 0
    THEN LET r == MigrateActivities(StartRun(db, fault), data)
         IN IF r.raised = "" THEN [db |-> r.db, raised |-> ""]
            ELSE [db |-> db, raised |-> r.raised]
    ELSE [db |-> db, raised |-> ""]

\* ----------------------------------------------------- ActivityRepository
\* mutant: the existence test answers true for every name
activity_exists_always(db, activity_name) == TRUE

\* activity_exists: SELECT id FROM activities WHERE name = ? is not None
activity_exists(db, activity_name) ==
    \E a \in db.activities : a.name = activity_name

\* get_activity_id: row["id"] if row else None
get_activity_id(db, activity_name) ==
    IF \E a \in db.activities : a.name = activity_name
    THEN (CHOOSE a \in db.activities : a.name = activity_name).id
    ELSE None

\* number of rows of  users u JOIN registrations r ON u.id = r.user_id
\* WHERE r.activity_id = ?  whose email is e
RECURSIVE JoinCount(_, _, _, _)
JoinCount(us, regs, activity_id, e) ==
    IF us = {} THEN 0
    ELSE LET u == CHOOSE x \in us : TRUE
         IN (IF u.email = e THEN CopiesIn(RegRow(u.id, activity_id), regs) ELSE 0)
            + JoinCount(us \ {u}, regs, activity_id, e)

\* mutant: the participants query without its WHERE r.activity_id = ?
Participants_of_any_activity(db, activity_id) ==
    LET count(e) == Cardinality({u \in db.users :
                        u.email = e /\ \E r \in BagToSet(db.registrations) : r.user_id = u.id})
    IN [e \in {e \in {u.email : u \in db.users} : count(e) > 0} |-> count(e)]

\* the participants list of one activity.  The SELECT has no ORDER BY, so
\* the order of the list is not determined: the list is modelled as the bag
\* of its emails.
Participants(db, activity_id) ==
    LET joined == {e \in {u.email : u \in db.users} :
                       JoinCount(db.users, db.registrations, activity_id, e) > 0}
    IN [e \in joined |-> JoinCount(db.users, db.registrations, activity_id, e)]

\* get_all_activities: the dict from activity name to its entry
get_all_activities(db) ==
    [n \in {a.name : a \in db.activities} |->
        LET row == CHOOSE a \in db.activities : a.name = n
        IN [description |-> row.description,
            schedule |-> row.schedule,
            max_participants |-> row.max_participants,
            participants |-> Participants(db, row.id)]]

\* --------------------------------------------------------- UserRepository
\* get_or_create_user, first statement: SELECT id FROM users WHERE email = ?
\* (None when fetchone() finds no row)
get_or_create_user_select(db, email) ==
    IF \E u \in db.users : u.email = email
    THEN (CHOOSE u \in db.users : u.email = email).id
    ELSE None

\* mutant: the INSERT as it would run were users.email not UNIQUE
get_or_create_user_insert_no_unique(db, email) ==
    [db |-> [db EXCEPT !.users = @ \cup {[id |-> NextId(db.users), email |-> email]}],
     raised |-> "",
     lastrowid |-> NextId(db.users)]

\* mutant: the INSERT without its commit: the id is returned, the row is
\* lost when the connection closes
get_or_create_user_insert_no_commit(db, email) ==
    IF \E u \in db.users : u.email = email
    THEN [db |-> db, raised |-> UniqueUsersEmail, lastrowid |-> None]
    ELSE [db |-> db, raised |-> "", lastrowid |-> NextId(db.users)]

\* mutant: INSERT OR REPLACE, which replaces the row of a stored email by a
\* new row with a new id
get_or_create_user_insert_or_replace(db, email) ==
    [db |-> [db EXCEPT !.users = {u \in @ : u.email # email}
                                 \cup {[id |-> NextId(db.users), email |-> email]}],
     raised |-> "",
     lastrowid |-> NextId(db.users)]

\* get_or_create_user, second statement: INSERT INTO users (email), commit,
\* return cursor.lastrowid; the UNIQUE email raises sqlite3.IntegrityError
\* when another connection has inserted the email since the SELECT
get_or_create_user_insert(db, email) ==
    IF \E u \in db.users : u.email = email
    THEN [db |-> db, raised |-> UniqueUsersEmail, lastrowid |-> None]
    ELSE [db |-> [db EXCEPT !.users = @ \cup {[id |-> NextId(db.users), email |-> email]}],
          raised |-> "",
          lastrowid |-> NextId(db.users)]

\* mutant: the registration test finds no row
is_user_registered_never(db, user_id, activity_id) == FALSE

\* mutant: the registration test ignores the activity
is_user_registered_any_activity(db, user_id, activity_id) ==
    \E row \in BagToSet(db.registrations) : row.user_id = user_id

\* mutant: the registration test finds a row for every pair
is_user_registered_always(db, user_id, activity_id) == TRUE

\* is_user_registered: SELECT id FROM registrations WHERE user_id = ? AND
\* activity_id = ? is not None
is_user_registered(db, user_id, activity_id) ==
    BagIn(RegRow(user_id, activity_id), db.registrations)

\* ------------------------------------------------- RegistrationRepository
\* mutant: the INSERT as it would run without UNIQUE(user_id, activity_id)
register_user_no_unique(db, user_id, activity_id) ==
    [db |-> [db EXCEPT !.registrations = @ (+) SetToBag({RegRow(user_id, activity_id)})],
     raised |-> ""]

\* mutant: the INSERT refused, silently, once the activity has
\* max_participants registrations
register_user_enforcing_capacity(db, user_id, activity_id) ==
    LET full == \E a \in db.activities :
                    /\ a.id = activity_id
                    /\ BagCardinality(Participants(db, activity_id)) >= a.max_participants
    IN IF BagIn(RegRow(user_id, activity_id), db.registrations)
       THEN [db |-> db, raised |-> UniqueRegistrationsPair]
       ELSE IF full THEN [db |-> db, raised |-> ""]
       ELSE [db |-> [db EXCEPT !.registrations = @ (+) SetToBag({RegRow(user_id, activity_id)})],
             raised |-> ""]

\* mutant: the INSERT without its commit, lost when the connection closes
register_user_no_commit(db, user_id, activity_id) ==
    IF BagIn(RegRow(user_id, activity_id), db.registrations)
    THEN [db |-> db, raised |-> UniqueRegistrationsPair]
    ELSE [db |-> db, raised |-> ""]

\* mutant: INSERT OR IGNORE, as the migration writes it
register_user_or_ignore(db, user_id, activity_id) ==
    [db |-> [db EXCEPT !.registrations =
                InsertOrIgnoreRegistration(@, user_id, activity_id)],
     raised |-> ""]

\* register_user: INSERT INTO registrations, commit; UNIQUE(user_id,
\* activity_id) raises sqlite3.IntegrityError when the pair is stored.
\* Foreign keys are declared but sqlite3 does not enforce them unless
\* PRAGMA foreign_keys is set, which the code never does.
register_user(db, user_id, activity_id) ==
    IF BagIn(RegRow(user_id, activity_id), db.registrations)
    THEN [db |-> db, raised |-> UniqueRegistrationsPair]
    ELSE [db |-> [db EXCEPT !.registrations = @ (+) SetToBag({RegRow(user_id, activity_id)})],
          raised |-> ""]

\* mutant: the DELETE reported as done whatever its rowcount
unregister_user_returns_true(db, user_id, activity_id) ==
    LET kept == {r \in BagToSet(db.registrations) : r # RegRow(user_id, activity_id)}
    IN [db |-> [db EXCEPT !.registrations = [r \in kept |-> db.registrations[r]]],
        result |-> TRUE]

\* mutant: the DELETE without its AND activity_id = ?
unregister_user_all_activities(db, user_id, activity_id) ==
    LET rowcount == CopiesIn(RegRow(user_id, activity_id), db.registrations)
        kept == {r \in BagToSet(db.registrations) : r.user_id # user_id}
    IN [db |-> [db EXCEPT !.registrations = [r \in kept |-> db.registrations[r]]],
        result |-> rowcount > 0]

\* mutant: the result compared with the wrong number, rowcount > 1
unregister_user_wrong_rowcount(db, user_id, activity_id) ==
    LET rowcount == CopiesIn(RegRow(user_id, activity_id), db.registrations)
        kept == {r \in BagToSet(db.registrations) : r # RegRow(user_id, activity_id)}
    IN [db |-> [db EXCEPT !.registrations = [r \in kept |-> db.registrations[r]]],
        result |-> rowcount > 1]

\* unregister_user: DELETE ... WHERE user_id = ? AND activity_id = ?,
\* commit, return cursor.rowcount > 0
unregister_user(db, user_id, activity_id) ==
    LET rowcount == CopiesIn(RegRow(user_id, activity_id), db.registrations)
        kept == {r \in BagToSet(db.registrations) : r # RegRow(user_id, activity_id)}
    IN [db |-> [db EXCEPT !.registrations = [r \in kept |-> db.registrations[r]]],
        result |-> rowcount > 0]

\* ------------------------------------------------------ request handlers
\* A worker's request: the endpoint, its two parameters, the statement the
\* handler is about to run (pc), its local variables, and its outcome: the
\* HTTP status it answered, or the exception it let escape.
IdleRequest ==
    [kind |-> "none", activity_name |-> "", email |-> "", pc |-> "idle",
     activity_id |-> None, user_id |-> None, status_code |-> 0, raised |-> ""]

NewRequest(kind, activity_name, email) ==
    [kind |-> kind, activity_name |-> activity_name, email |-> email,
     pc |-> "activity_exists",
     activity_id |-> None, user_id |-> None, status_code |-> 0, raised |-> ""]

\* return {...} (200) or raise HTTPException(status_code=...)
Respond(r, status_code) == [r EXCEPT !.pc = "done", !.status_code = status_code]

\* an exception no handler catches leaves the endpoint
Escape(r, raised) == [r EXCEPT !.pc = "done", !.raised = raised]

\* the statements the two endpoints share, each a repository call:
\* activity_exists, get_activity_id, get_or_create_user (its SELECT and its
\* INSERT are separate statements of one call)
LookupStep(db, r, next) ==
    CASE r.pc = "activity_exists" ->
            IF ~activity_exists(db, r.activity_name)
            THEN [db |-> db, req |-> Respond(r, 404)]
            ELSE [db |-> db, req |-> [r EXCEPT !.pc = "get_activity_id"]]
      [] r.pc = "get_activity_id" ->
            [db |-> db,
             req |-> [r EXCEPT !.activity_id = get_activity_id(db, r.activity_name),
                               !.pc = "get_or_create_user"]]
      [] r.pc = "get_or_create_user" ->
            LET id == get_or_create_user_select(db, r.email)
            IN IF id # None
               THEN [db |-> db, req |-> [r EXCEPT !.user_id = id, !.pc = "is_user_registered"]]
               ELSE [db |-> db, req |-> [r EXCEPT !.pc = "insert_user"]]
      [] r.pc = "insert_user" ->
            LET ins == get_or_create_user_insert(db, r.email)
            IN IF ins.raised # ""
               THEN [db |-> ins.db, req |-> Escape(r, ins.raised)]
               ELSE [db |-> ins.db,
                     req |-> [r EXCEPT !.user_id = ins.lastrowid, !.pc = "is_user_registered"]]
      [] OTHER -> next

\* signup_for_activity, one statement
SignupStep(db, r) ==
    LookupStep(db, r,
        CASE r.pc = "is_user_registered" ->
                IF is_user_registered(db, r.user_id, r.activity_id)
                THEN [db |-> db, req |-> Respond(r, 400)]
                ELSE [db |-> db, req |-> [r EXCEPT !.pc = "register_user"]]
          [] r.pc = "register_user" ->
                LET reg == register_user(db, r.user_id, r.activity_id)
                IN IF reg.raised # ""
                   THEN [db |-> reg.db, req |-> Escape(r, reg.raised)]
                   ELSE [db |-> reg.db, req |-> Respond(r, 200)]
          [] OTHER -> [db |-> db, req |-> r])

\* unregister_from_activity, one statement
UnregisterStep(db, r) ==
    LookupStep(db, r,
        CASE r.pc = "is_user_registered" ->
                IF ~is_user_registered(db, r.user_id, r.activity_id)
                THEN [db |-> db, req |-> Respond(r, 400)]
                ELSE [db |-> db, req |-> [r EXCEPT !.pc = "unregister_user"]]
          [] r.pc = "unregister_user" ->
                LET del == unregister_user(db, r.user_id, r.activity_id)
                IN IF del.result
                   THEN [db |-> del.db, req |-> Respond(r, 200)]
                   ELSE [db |-> del.db, req |-> Respond(r, 500)]
          [] OTHER -> [db |-> db, req |-> r])

HandlerStep(db, r) ==
    IF r.kind = "signup" THEN SignupStep(db, r) ELSE UnregisterStep(db, r)

\* a handler run from its current statement to its response with no other
\* request in between
RECURSIVE RunHandler(_, _)
RunHandler(db, r) ==
    IF r.pc \in {"idle", "done"} THEN [db |-> db, req |-> r]
    ELSE LET s == HandlerStep(db, r) IN RunHandler(s.db, s.req)

\* ---------------------------------------------------------------- actions
\* DatabaseManager() has run init_database: the three tables exist, empty
Init ==
    /\ users = {}
    /\ activities = {}
    /\ registrations = EmptyBag
    /\ req = [p \in Procs |-> IdleRequest]
    /\ app = "down"

Commit(db) ==
    /\ users' = db.users
    /\ activities' = db.activities
    /\ registrations' = db.registrations

Free(p) == req[p].pc \in {"idle", "done"}

\* The process starts (again): loading app.py runs
\* migrate_existing_data(activities) before any endpoint is served, and no
\* request of an earlier run of the process is left.  An exception escaping
\* the migration ends the load, and the process with it.
\* A fault is an input of the runs that execute an INSERT, those on an
\* empty activities table.
Migrate(fault) ==
    /\ fault # 0 => activities = {}
    /\ LET m == migrate_existing_data(DB, activities_data, fault)
       IN /\ Commit(m.db)
          /\ app' = IF m.raised = "" THEN "up" ELSE "failed"
    /\ req' = [p \in Procs |-> IdleRequest]

\* POST /activities/{activity_name}/signup?email=... arrives at a free worker;
\* requests are served only once the module is loaded
Signup(p, activity_name, email) ==
    /\ app = "up"
    /\ Free(p)
    /\ req' = [req EXCEPT ![p] = NewRequest("signup", activity_name, email)]
    /\ UNCHANGED <<users, activities, registrations, app>>

\* DELETE /activities/{activity_name}/unregister?email=... arrives
Unregister(p, activity_name, email) ==
    /\ app = "up"
    /\ Free(p)
    /\ req' = [req EXCEPT ![p] = NewRequest("unregister", activity_name, email)]
    /\ UNCHANGED <<users, activities, registrations, app>>

\* worker p runs the next statement of its handler
Step(p) ==
    /\ ~Free(p)
    /\ LET s == HandlerStep(DB, req[p])
       IN /\ Commit(s.db)
          /\ req' = [req EXCEPT ![p] = s.req]
    /\ UNCHANGED app

Next ==
    \/ \E fault \in Faults : Migrate(fault)
    \/ \E p \in Procs, n \in ActivityNames, e \in Emails : Signup(p, n, e)
    \/ \E p \in Procs, n \in ActivityNames, e \in Emails : Unregister(p, n, e)
    \/ \E p \in Procs : Step(p)

Spec == Init /\ [][Next]_vars

\* ------------------------------------------------------ serial execution
\* a signup request handled from arrival to response with nothing in between
SignupSerial(p, activity_name, email) ==
    /\ app = "up"
    /\ \A q \in Procs : Free(q)
    /\ LET s == RunHandler(DB, NewRequest("signup", activity_name, email))
       IN /\ Commit(s.db)
          /\ req' = [req EXCEPT ![p] = s.req]
    /\ UNCHANGED app

\* an unregister request handled from arrival to response
UnregisterSerial(p, activity_name, email) ==
    /\ app = "up"
    /\ \A q \in Procs : Free(q)
    /\ LET s == RunHandler(DB, NewRequest("unregister", activity_name, email))
       IN /\ Commit(s.db)
          /\ req' = [req EXCEPT ![p] = s.req]
    /\ UNCHANGED app

SerialNext ==
    \/ \E fault \in Faults : Migrate(fault)
    \/ \E p \in Procs, n \in ActivityNames, e \in Emails : SignupSerial(p, n, e)
    \/ \E p \in Procs, n \in ActivityNames, e \in Emails : UnregisterSerial(p, n, e)

SerialSpec == Init /\ [][SerialNext]_vars

\* ------------------------------------------------------------ properties
\* the database after the step
DBnext == [users |-> users', activities |-> activities', registrations |-> registrations']

\* the names in the activities table
StoredNames == {a.name : a \in activities}

\* the participants get_all_activities reports for a stored activity name
ParticipantsOf(db, n) == get_all_activities(db)[n].participants

\* the id of the users row of an email, None without one
UserIdOf(e) == IF \E u \in users : u.email = e
               THEN (CHOOSE u \in users : u.email = e).id ELSE None

\* the id of the activities row of a name
ActivityIdOf(n) == (CHOOSE a \in activities : a.name = n).id

\* r is a finished request of the given endpoint and parameters
Handled(r, kind, n, e) ==
    r.pc = "done" /\ r.kind = kind /\ r.activity_name = n /\ r.email = e

Answered(r, kind, status_code) ==
    r.pc = "done" /\ r.kind = kind /\ r.status_code = status_code /\ r.raised = ""

\* C1: in every reachable state, whatever the interleaving of migration,
\* signup and unregister requests, the registrations table holds at most one
\* row for any (user_id, activity_id) pair.
C1_NoDuplicateRegistration ==
    \A row \in BagToSet(registrations) : CopiesIn(row, registrations) <= 1

\* C1 witness: a signup has stored the pair while a second signup for the
\* same email and activity has passed the check and is about to insert it
C1_Witness ==
    \E p \in Procs, q \in Procs :
        /\ p # q
        /\ Answered(req[p], "signup", 200)
        /\ req[q].kind = "signup" /\ req[q].pc = "register_user"
        /\ req[q].user_id = req[p].user_id /\ req[q].activity_id = req[p].activity_id
        /\ CopiesIn(RegRow(req[p].user_id, req[p].activity_id), registrations) = 1

\* C2: a signup request, run without interleaving, for a stored activity and
\* an email not among its participants answers 200 and the participants
\* become the previous ones plus the email once, with no regard to
\* max_participants.
C2_SignupAddsParticipant ==
    [][\A p \in Procs, n \in ActivityNames, e \in Emails :
          (/\ Handled(req'[p], "signup", n, e)
           /\ SignupSerial(p, n, e)
           /\ n \in StoredNames
           /\ ~BagIn(e, ParticipantsOf(DB, n)))
          => (/\ Answered(req'[p], "signup", 200)
              /\ ParticipantsOf(DBnext, n) = ParticipantsOf(DB, n) (+) SetToBag({e})
              /\ BagCardinality(ParticipantsOf(DBnext, n))
                    = BagCardinality(ParticipantsOf(DB, n)) + 1)]_vars

\* C2 witness: a signup was accepted and the activity now has more
\* participants than its max_participants
C2_Witness ==
    \E p \in Procs :
        /\ Answered(req[p], "signup", 200)
        /\ req[p].activity_name \in StoredNames
        /\ BagIn(req[p].email, ParticipantsOf(DB, req[p].activity_name))
        /\ BagCardinality(ParticipantsOf(DB, req[p].activity_name))
              > get_all_activities(DB)[req[p].activity_name].max_participants

\* C3: a signup request for an email that is among the participants of the
\* named stored activity answers 400 and leaves the participant count (and
\* the registrations table) as it was.
C3_DuplicateSignupRejected ==
    [][\A p \in Procs, n \in ActivityNames, e \in Emails :
          (/\ Handled(req'[p], "signup", n, e)
           /\ SignupSerial(p, n, e)
           /\ n \in StoredNames
           /\ BagIn(e, ParticipantsOf(DB, n)))
          => (/\ Answered(req'[p], "signup", 400)
              /\ BagCardinality(ParticipantsOf(DBnext, n))
                    = BagCardinality(ParticipantsOf(DB, n))
              /\ registrations' = registrations)]_vars

\* C3 witness: a signup was answered 400 for an email that is registered
C3_Witness ==
    \E p \in Procs :
        /\ Answered(req[p], "signup", 400)
        /\ BagIn(req[p].email, ParticipantsOf(DB, req[p].activity_name))

\* C4: an unregister request for a stored activity and an email that is not
\* among its participants, a never seen email included, answers 400 and
\* leaves the registrations table as it was.
C4_UnregisterNotSignedUpRejected ==
    [][\A p \in Procs, n \in ActivityNames, e \in Emails :
          (/\ Handled(req'[p], "unregister", n, e)
           /\ UnregisterSerial(p, n, e)
           /\ n \in StoredNames
           /\ ~BagIn(e, ParticipantsOf(DB, n)))
          => (/\ Answered(req'[p], "unregister", 400)
              /\ registrations' = registrations)]_vars

\* C4 witness: an unregister of an email that never signed up for anything
\* was answered 400
C4_Witness ==
    \E p \in Procs :
        /\ Answered(req[p], "unregister", 400)
        /\ req[p].email = Alice
        /\ \A row \in BagToSet(registrations) : row.user_id # req[p].user_id

\* C5: a signup or unregister request whose activity name is not in the
\* activities table is at its first statement, and that statement answers
\* 404 with no user looked up or created and no table changed.
C5_UnknownActivityNotFound ==
    [][\A p \in Procs :
          (~Free(p) /\ req[p].activity_name \notin StoredNames /\ Step(p))
          => (/\ req[p].pc = "activity_exists"
              /\ Answered(req'[p], req[p].kind, 404)
              /\ req'[p].user_id = None /\ req'[p].activity_id = None
              /\ UNCHANGED <<users, activities, registrations>>)]_vars

\* C5 witness: both endpoints have answered 404 for the unseeded name
C5_Witness ==
    \E p \in Procs, q \in Procs :
        /\ Answered(req[p], "signup", 404) /\ req[p].activity_name = Knitting
        /\ Answered(req[q], "unregister", 404) /\ req[q].activity_name = Knitting

\* C6: once the activities table holds rows, a run of the migration changes
\* no row of users, activities or registrations and the application comes
\* up, whatever signups and unregisters happened since the seeding run.
C6_SeedingIdempotent ==
    [][(activities # {} /\ \E fault \in Faults : Migrate(fault))
          => (/\ UNCHANGED <<users, activities, registrations>>
              /\ app' = "up")]_vars

\* C6 witness: the process was started again after a signup had added an
\* unseeded email to a seeded activity (no request is left, the row is)
C6_Witness ==
    /\ app = "up"
    /\ \A p \in Procs : req[p] = IdleRequest
    /\ UserIdOf(Alice) # None
    /\ BagIn(RegRow(UserIdOf(Alice), ActivityIdOf(Chess)), registrations)

\* C7: no two users rows have the same email, and every identifier
\* get_or_create_user has returned for an email is the id of the one row of
\* that email, so two calls for one email return the same identifier.
C7_OneUserPerEmail ==
    /\ \A u \in users, v \in users : u.email = v.email => u = v
    /\ \A p \in Procs :
          req[p].user_id # None
          => /\ Cardinality({u \in users : u.email = req[p].email}) = 1
             /\ req[p].user_id = UserIdOf(req[p].email)
    /\ \A p \in Procs, q \in Procs :
          (req[p].user_id # None /\ req[q].user_id # None /\ req[p].email = req[q].email)
          => req[p].user_id = req[q].user_id

\* C7 witness: get_or_create_user has returned twice for an email the seed
\* does not know
C7_Witness ==
    \E p \in Procs, q \in Procs :
        /\ p # q
        /\ req[p].email = Alice /\ req[q].email = Alice
        /\ req[p].user_id # None /\ req[q].user_id # None

\* C8: right after register_user(u, a) returns, is_user_registered(u, a) is
\* true; right after unregister_user(u, a) returns, it is false.
C8_RegisterThenCheck ==
    [][\A p \in Procs :
          /\ (req[p].pc = "register_user" /\ Step(p) /\ req'[p].raised = "")
                => is_user_registered(DBnext, req[p].user_id, req[p].activity_id)
          /\ (req[p].pc = "unregister_user" /\ Step(p))
                => ~is_user_registered(DBnext, req[p].user_id, req[p].activity_id)]_vars

\* C8 witness: one pair was registered by a signup and another was removed
\* by an unregister
C8_Witness ==
    \E p \in Procs, q \in Procs :
        /\ Answered(req[p], "signup", 200)
        /\ Answered(req[q], "unregister", 200)
        /\ req[p].email # req[q].email
        /\ is_user_registered(DB, req[p].user_id, req[p].activity_id)
        /\ ~is_user_registered(DB, req[q].user_id, req[q].activity_id)

\* C9: a signup that has passed its is_user_registered test runs
\* register_user whatever other requests did meanwhile: when the pair was
\* stored in between, the INSERT raises the uniqueness error, which leaves
\* the endpoint as an exception and not as the 400 answer; otherwise the
\* signup answers 200; either way exactly one row of the pair is stored.
C9_SignupRace ==
    [][\A p \in Procs :
          (req[p].kind = "signup" /\ req[p].pc = "register_user" /\ Step(p))
          => LET row == RegRow(req[p].user_id, req[p].activity_id)
             IN /\ CopiesIn(row, registrations') = 1
                /\ BagIn(row, registrations)
                      => (/\ req'[p].pc = "done"
                          /\ req'[p].raised = UniqueRegistrationsPair
                          /\ req'[p].status_code = 0
                          /\ registrations' = registrations)
                /\ ~BagIn(row, registrations)
                      => Answered(req'[p], "signup", 200)]_vars

\* C9 witness: two signups for the same email and activity have both passed
\* the test; one answered 200, the other ended in the uniqueness error, and
\* one row of the pair is stored
C9_Witness ==
    \E p \in Procs, q \in Procs :
        /\ p # q
        /\ Answered(req[p], "signup", 200)
        /\ req[q].kind = "signup" /\ req[q].pc = "done"
        /\ req[q].raised = UniqueRegistrationsPair /\ req[q].status_code = 0
        /\ req[q].email = req[p].email /\ req[q].activity_name = req[p].activity_name
        /\ CopiesIn(RegRow(req[p].user_id, req[p].activity_id), registrations) = 1

\* C10: under any interleaving of calls of get_or_create_user for the same
\* new email, no call fails, and every call that has returned holds the id
\* of the single users row of that email.
C10_GetOrCreateNeverFails ==
    \A p \in Procs :
        /\ req[p].raised # UniqueUsersEmail
        /\ req[p].user_id # None
              => /\ Cardinality({u \in users : u.email = req[p].email}) = 1
                 /\ req[p].user_id = UserIdOf(req[p].email)

\* C11: unregister_from_activity answers 500 exactly when its
\* unregister_user deletes no row although its is_user_registered test was
\* true, which is when another request removed the pair in between, and
\* answers 200 when a row was deleted; either way the pair ends unregistered.
\* No other statement of either endpoint answers 500.
C11_UnregisterRace ==
    [][\A p \in Procs :
          /\ (req[p].pc = "unregister_user" /\ Step(p))
                => LET row == RegRow(req[p].user_id, req[p].activity_id)
                   IN /\ req'[p].status_code = 500 <=> ~BagIn(row, registrations)
                      /\ req'[p].status_code = 200 <=> BagIn(row, registrations)
                      /\ req'[p].pc = "done" /\ req'[p].raised = ""
                      /\ ~BagIn(row, registrations')
          /\ (req'[p].status_code = 500 /\ req[p].status_code # 500)
                => (req[p].kind = "unregister" /\ req[p].pc = "unregister_user")]_vars

\* C11 witness: two unregister requests for the same registered pair have
\* both passed the test; one answered 200, the other 500, and the pair is
\* not registered
C11_Witness ==
    \E p \in Procs, q \in Procs :
        /\ p # q
        /\ Answered(req[p], "unregister", 200)
        /\ Answered(req[q], "unregister", 500)
        /\ req[q].user_id = req[p].user_id /\ req[q].activity_id = req[p].activity_id
        /\ ~BagIn(RegRow(req[p].user_id, req[p].activity_id), registrations)

\* C12: in every reachable state every registrations row has the id of a
\* users row as user_id and the id of an activities row as activity_id.
C12_ReferentialIntegrity ==
    \A row \in BagToSet(registrations) :
        /\ \E u \in users : u.id = row.user_id
        /\ \E a \in activities : a.id = row.activity_id

\* C12 witness: a signup has stored a registration of a user it created
C12_Witness ==
    \E p \in Procs :
        /\ Answered(req[p], "signup", 200)
        /\ req[p].email = Alice
        /\ req[p].user_id = UserIdOf(Alice)
        /\ BagIn(RegRow(req[p].user_id, req[p].activity_id), registrations)

\* the emails of the users holding a registrations row of the activity
RegisteredEmails(activity_id) ==
    {u.email : u \in {x \in users : BagIn(RegRow(x.id, activity_id), registrations)}}

\* the entries of get_all_activities match the tables: one entry per
\* activities row, whose participants are the emails of RegisteredEmails,
\* each once (the empty list when there are none)
C13_EntriesMatchTables ==
    /\ DOMAIN get_all_activities(DB) = StoredNames
    /\ Cardinality(StoredNames) = Cardinality(activities)
    /\ \A a \in activities :
          get_all_activities(DB)[a.name].participants
             = [e \in RegisteredEmails(a.id) |-> 1]

\* the emails of a participants sequence of the seed
RECURSIVE SeqToSet(_)
SeqToSet(seq) == IF seq = << >> THEN {} ELSE {Head(seq)} \cup SeqToSet(Tail(seq))

\* C13: in every state (the tables are empty at first, and the result is
\* a function of the tables, so the states to look at are those a step that
\* changes a table reaches) get_all_activities has exactly one
\* entry per activities row, and the participants of each entry are exactly
\* the emails of the users holding a registrations row of that activity,
\* each once, none when there is no such row; and the seeding run leaves
\* every seeded activity with exactly its seeded participants.
C13_GetAllActivities ==
    [][/\ (DBnext # DB) => C13_EntriesMatchTables'
       /\ (activities = {} /\ activities' # {})
             => \A i \in 1..Len(activities_data) :
                   /\ activities_data[i].name \in DOMAIN get_all_activities(DBnext)
                   /\ BagToSet(ParticipantsOf(DBnext, activities_data[i].name))
                         = SeqToSet(activities_data[i].participants)]_vars

\* C13 witness: after its only participant has unregistered, a seeded
\* activity is reported with an empty participants list
C13_Witness ==
    /\ Chess \in StoredNames
    /\ Programming \in StoredNames
    /\ ParticipantsOf(DB, Chess) = EmptyBag
    /\ ParticipantsOf(DB, Programming) # EmptyBag

\* the (user_id, activity_id) pairs stored before or after the step
TouchedPairs == BagToSet(registrations) \cup BagToSet(registrations')

\* the step is worker p's register_user of the pair, answered 200
RegisteredBy(p, row) ==
    /\ req[p].kind = "signup" /\ req[p].pc = "register_user"
    /\ RegRow(req[p].user_id, req[p].activity_id) = row
    /\ Step(p)
    /\ Answered(req'[p], "signup", 200)

\* the step is worker p's unregister_user of the pair, answered 200
UnregisteredBy(p, row) ==
    /\ req[p].kind = "unregister" /\ req[p].pc = "unregister_user"
    /\ RegRow(req[p].user_id, req[p].activity_id) = row
    /\ Step(p)
    /\ Answered(req'[p], "unregister", 200)

\* the step is the seeding run and the pair is a participant of the seed
SeededBy(row) ==
    /\ activities = {} /\ activities' # {}
    /\ \E fault \in Faults : Migrate(fault)
    /\ \E i \in 1..Len(activities_data) :
          \E u \in users', a \in activities' :
              /\ a.name = activities_data[i].name
              /\ u.email \in SeqToSet(activities_data[i].participants)
              /\ row = RegRow(u.id, a.id)

\* C14 as stated: a pair becomes registered only by a successful
\* signup/register_user of that very pair and becomes unregistered only by a
\* successful unregister/unregister_user of that very pair; every other
\* step leaves its status as it was.
C14_OnlyRequestsChangeStatus ==
    [][\A row \in TouchedPairs :
          /\ (~BagIn(row, registrations) /\ BagIn(row, registrations'))
                => \E p \in Procs : RegisteredBy(p, row)
          /\ (BagIn(row, registrations) /\ ~BagIn(row, registrations'))
                => \E p \in Procs : UnregisteredBy(p, row)]_vars

\* C14 amended: a pair becomes registered only by a successful
\* signup/register_user of that very pair or by the seeding run of the
\* migration, which registers the seeded participants, and becomes
\* unregistered only by a successful unregister/unregister_user of that very
\* pair; every other step leaves its status as it was.
C14_PairStateMachine ==
    [][\A row \in TouchedPairs :
          /\ (~BagIn(row, registrations) /\ BagIn(row, registrations'))
                => ((\E p \in Procs : RegisteredBy(p, row)) \/ SeededBy(row))
          /\ (BagIn(row, registrations) /\ ~BagIn(row, registrations'))
                => \E p \in Procs : UnregisteredBy(p, row)]_vars

\* C14 witness: a seeded pair and a pair a signup registered are both
\* stored, and a rejected signup for the seeded pair has left it so
C14_Witness ==
    \E p \in Procs, q \in Procs :
        /\ Answered(req[p], "signup", 200) /\ req[p].email = Alice
        /\ Answered(req[q], "signup", 400) /\ req[q].email = Michael
        /\ req[p].activity_id = req[q].activity_id
        /\ BagIn(RegRow(req[p].user_id, req[p].activity_id), registrations)
        /\ BagIn(RegRow(req[q].user_id, req[q].activity_id), registrations)

\* C15: no step removes or changes a users row or an activities row, and
\* the activities table changes only in the seeding run of the migration:
\* once it holds rows it stays as it is.
C15_AppendOnly ==
    [][/\ users \subseteq users'
       /\ activities \subseteq activities'
       /\ activities # {} => activities' = activities
       /\ activities' # activities
             => (activities = {} /\ \E fault \in Faults : Migrate(fault))]_vars

\* C15 witness: a user created by a request has unregistered again; its
\* users row and the seeded rows are all there
C15_Witness ==
    \E p \in Procs :
        /\ Answered(req[p], "unregister", 200)
        /\ req[p].email = Alice
        /\ \E u \in users : u.email = Alice /\ u.id = req[p].user_id
        /\ Cardinality(users) = 3
        /\ Cardinality(activities) = Len(activities_data)

\* the three tables hold the seed and nothing else (stated of the state
\* after the step)
SeededNext ==
    /\ {a.name : a \in activities'} = {activities_data[i].name : i \in 1..Len(activities_data)}
    /\ Cardinality(activities') = Len(activities_data)
    /\ {u.email : u \in users'}
          = UNION {SeqToSet(activities_data[i].participants) : i \in 1..Len(activities_data)}
    /\ \A i \in 1..Len(activities_data) :
          BagToSet(ParticipantsOf(DBnext, activities_data[i].name))
             = SeqToSet(activities_data[i].participants)
    /\ \A row \in BagToSet(registrations') :
          /\ CopiesIn(row, registrations') = 1
          /\ \E u \in users' : u.id = row.user_id
          /\ \E a \in activities' : a.id = row.activity_id

\* C16: a run of the migration on an empty activities table in which an
\* INSERT fails persists no row of any table, so the activities table stays
\* empty and the application does not come up; a run with no failure, also
\* one that follows failed runs, stores the whole seed.
C16_SeedingAllOrNothing ==
    [][\A fault \in Faults :
          (/\ activities = {}
           /\ \A p \in Procs : req'[p] = IdleRequest
           /\ Migrate(fault))
          => IF fault # 0
             THEN /\ app' = "failed"
                  /\ activities' = {}
                  /\ users' = users
                  /\ registrations' = registrations
             ELSE /\ app' = "up"
                  /\ SeededNext]_vars

\* C16 witness: a run of the migration has failed and no row is stored
C16_Witness ==
    /\ app = "failed"
    /\ activities = {}
    /\ users = {}
    /\ registrations = EmptyBag

\* C17: when every request runs to its response before the next one starts,
\* no unregister answers 500 and no request ends in an exception: the
\* unregister_user after a true is_user_registered deletes a row and the
\* register_user after a false one inserts.
C17_SerialNoSurprise ==
    \A p \in Procs :
        /\ req[p].status_code # 500
        /\ req[p].raised = ""
        /\ req[p].pc = "done" => req[p].status_code \in {200, 400, 404}

\* C17 witness: one after the other, a signup and an unregister of the same
\* email were both answered 200
C17_Witness ==
    \E p \in Procs, q \in Procs :
        /\ p # q
        /\ Answered(req[p], "signup", 200)
        /\ Answered(req[q], "unregister", 200)
        /\ req[p].email = req[q].email
        /\ req[p].activity_name = req[q].activity_name

\* what a rejected request has done to the tables: nothing when answered
\* 404; when answered 400 nothing to activities and registrations, and to
\* users at most the addition of one row for its email, which had none
RejectedFrame(r, e) ==
    /\ r.status_code = 404
          => UNCHANGED <<users, activities, registrations>>
    /\ r.status_code = 400
          => /\ activities' = activities
             /\ registrations' = registrations
             /\ \/ users' = users
                \/ /\ UserIdOf(e) = None
                   /\ \E u \in users' :
                         u.email = e /\ u \notin users /\ users' = users \cup {u}

\* C18: a request answered 404 changes no table; a request answered 400
\* changes neither activities nor registrations and adds at most one users
\* row, for its email; an unregister for a stored activity and an email
\* with no users row is answered 400 and has added the users row.
C18_RejectedRequestFrame ==
    [][\A p \in Procs, n \in ActivityNames, e \in Emails :
          /\ (Handled(req'[p], "signup", n, e) /\ SignupSerial(p, n, e))
                => RejectedFrame(req'[p], e)
          /\ (Handled(req'[p], "unregister", n, e) /\ UnregisterSerial(p, n, e))
                => /\ RejectedFrame(req'[p], e)
                   /\ (n \in StoredNames /\ UserIdOf(e) = None)
                         => /\ Answered(req'[p], "unregister", 400)
                            /\ users' # users
                            /\ \E u \in users' : u.email = e /\ u.id = req'[p].user_id]_vars

\* C18 witness: an unregister for an email the seed does not know was
\* answered 400 and the email has a users row
C18_Witness ==
    \E p \in Procs :
        /\ Answered(req[p], "unregister", 400)
        /\ req[p].email = Alice
        /\ UserIdOf(Alice) # None
        /\ UserIdOf(Alice) = req[p].user_id
        /\ Cardinality(users) = 3

====
